---- MODULE Spec2Model ----
(***************************************************************************)
(* KanTannaPDF: the split / merge pipeline (splitPdfPages, mergePdfFiles)  *)
(* and the page component (Home) that drives it.                           *)
(*                                                                         *)
(* Strings that the code inspects character by character (file names) are  *)
(* sequences of one-character strings.  An error message is the set of the *)
(* keywords it contains, which is all that String.includes looks at.       *)
(* A value that may be null / undefined is a sequence of length 0 or 1.    *)
(***************************************************************************)
EXTENDS Integers, Sequences, FiniteSets, TLC

\* ------------------------------------------------------------------ bounds
\* longest merge list the model builds
MaxFiles == 3
\* most files handed over by one pick or one drop
MaxSelect == 2
\* most keyword occurrences in the message of a value given to getErrorInfo
MaxWords == 2
\* pages of the longest document given to splitPdfPages
MaxPage == 100
\* pages of the longest document given to the app, which renders a thumbnail of
\* every page
MaxShown == 3

\* --------------------------------------------------------------- constants
MAX_FILE_SIZE == 100 * 1024 * 1024
MAX_TOTAL_SIZE == 200 * 1024 * 1024
MB == 1024 * 1024

\* ---------------------------------------------------------------- strings
UpperCase == <<"A","B","C","D","E","F","G","H","I","J","K","L","M",
               "N","O","P","Q","R","S","T","U","V","W","X","Y","Z">>
LowerCase == <<"a","b","c","d","e","f","g","h","i","j","k","l","m",
               "n","o","p","q","r","s","t","u","v","w","x","y","z">>

LowerChar(c) ==
  IF \E k \in 1..26 : UpperCase[k] = c
  THEN LowerCase[CHOOSE k \in 1..26 : UpperCase[k] = c]
  ELSE c

toLowerCase(s) == [k \in 1..Len(s) |-> LowerChar(s[k])]

endsWith(s, suffix) ==
  /\ Len(s) >= Len(suffix)
  /\ SubSeq(s, Len(s) - Len(suffix) + 1, Len(s)) = suffix

DotPdf == <<".","p","d","f">>

\* name.replace(/\.pdf$/i, '')
stripPdf(name) ==
  IF endsWith(toLowerCase(name), DotPdf)
  THEN SubSeq(name, 1, Len(name) - 4)
  ELSE name

Digits == <<"0","1","2","3","4","5","6","7","8","9">>

RECURSIVE toString(_)
toString(n) ==
  IF n < 10 THEN <<Digits[n + 1]>>
  ELSE toString(n \div 10) \o <<Digits[(n % 10) + 1]>>

RECURSIVE padStart(_, _, _)
padStart(s, width, fill) ==
  IF Len(s) >= width THEN s ELSE padStart(<<fill>> \o s, width, fill)

\* ------------------------------------------------------------------ files
\* The files a user may hand to the app.  doc is what PDFDocument.load makes
\* of the bytes: ok = FALSE when the bytes do not parse, pages the page
\* objects in order, bad the index of a page whose copy throws (0: none).
PDF == "application/pdf"

Catalogue ==
  [ a |-> [name |-> <<"a",".","p","d","f">>, type |-> PDF, size |-> MB,
           doc |-> [ok |-> TRUE, pages |-> <<"a1","a2">>, bad |-> 0]],
    b |-> [name |-> <<"b",".","P","D","F">>, type |-> "", size |-> MB,
           doc |-> [ok |-> TRUE, pages |-> <<"b1","b2","b3">>, bad |-> 0]],
    z |-> [name |-> <<"z",".","p","d","f">>, type |-> PDF, size |-> 1,
           doc |-> [ok |-> TRUE, pages |-> <<>>, bad |-> 0]],
    c |-> [name |-> <<"c",".","p","d","f">>, type |-> PDF, size |-> MB,
           doc |-> [ok |-> FALSE, pages |-> <<>>, bad |-> 0]],
    p |-> [name |-> <<"p",".","p","d","f">>, type |-> PDF, size |-> MB,
           doc |-> [ok |-> TRUE, pages |-> <<"p1","p2","p3">>, bad |-> 2]],
    g |-> [name |-> <<"g",".","p","d","f">>, type |-> PDF, size |-> MAX_FILE_SIZE,
           doc |-> [ok |-> TRUE, pages |-> <<"g1">>, bad |-> 0]],
    h |-> [name |-> <<"h",".","p","d","f">>, type |-> PDF, size |-> MAX_FILE_SIZE + 1,
           doc |-> [ok |-> TRUE, pages |-> <<"h1">>, bad |-> 0]],
    t |-> [name |-> <<"t",".","t","x","t">>, type |-> "text/plain", size |-> MB,
           doc |-> [ok |-> FALSE, pages |-> <<>>, bad |-> 0]],
    i |-> [name |-> <<"i",".","p","d","f">>, type |-> "image/png", size |-> MAX_FILE_SIZE + 1,
           doc |-> [ok |-> TRUE, pages |-> <<"i1">>, bad |-> 0]],
    n |-> [name |-> <<"n",".","t","x","t">>, type |-> PDF, size |-> MAX_FILE_SIZE + 1,
           doc |-> [ok |-> TRUE, pages |-> <<"n1">>, bad |-> 0]],
    w |-> [name |-> <<"w",".","P","d","f">>, type |-> PDF, size |-> MB,
           doc |-> [ok |-> TRUE, pages |-> [k \in 1..MaxPage |-> "w"], bad |-> 0]] ]

Files == DOMAIN Catalogue

\* the sequences over S of length at most k
SeqsUpTo(S, k) == UNION {[1..m -> S] : m \in 0..k}

\* ------------------------------------------------------------ error kinds
INVALID_FILE_TYPE == "INVALID_FILE_TYPE"
FILE_TOO_LARGE == "FILE_TOO_LARGE"
CORRUPTED_PDF == "CORRUPTED_PDF"
PROCESSING_ERROR == "PROCESSING_ERROR"
MEMORY_ERROR == "MEMORY_ERROR"
UNKNOWN_ERROR == "UNKNOWN_ERROR"

ErrorType == {INVALID_FILE_TYPE, FILE_TOO_LARGE, CORRUPTED_PDF,
              PROCESSING_ERROR, MEMORY_ERROR, UNKNOWN_ERROR}

\* the static table: one message and one solution text per kind
ERROR_MESSAGES(kind) ==
  CASE kind = INVALID_FILE_TYPE ->
         [type |-> INVALID_FILE_TYPE, message |-> "table.invalidFileType.message",
          solution |-> "table.invalidFileType.solution"]
    [] kind = FILE_TOO_LARGE ->
         [type |-> FILE_TOO_LARGE, message |-> "table.fileTooLarge.message",
          solution |-> "table.fileTooLarge.solution"]
    [] kind = CORRUPTED_PDF ->
         [type |-> CORRUPTED_PDF, message |-> "table.corruptedPdf.message",
          solution |-> "table.corruptedPdf.solution"]
    [] kind = PROCESSING_ERROR ->
         [type |-> PROCESSING_ERROR, message |-> "table.processingError.message",
          solution |-> "table.processingError.solution"]
    [] kind = MEMORY_ERROR ->
         [type |-> MEMORY_ERROR, message |-> "table.memoryError.message",
          solution |-> "table.memoryError.solution"]
    [] kind = UNKNOWN_ERROR ->
         [type |-> UNKNOWN_ERROR, message |-> "table.unknownError.message",
          solution |-> "table.unknownError.solution"]

\* the words a message may hold that the keyword rules look for, some of them
\* written with a capital; String.toLowerCase turns each into its lower form
Capitalised == <<"Invalid", "Parse", "Memory", "Size">>
Uncapitalised == <<"invalid", "parse", "memory", "size">>

lowerWord(w) ==
  IF \E k \in 1..Len(Capitalised) : Capitalised[k] = w
  THEN Uncapitalised[CHOOSE k \in 1..Len(Capitalised) : Capitalised[k] = w]
  ELSE w

\* message.toLowerCase(), and String.includes on the outcome
lowerMessage(words) == {lowerWord(w) : w \in words}
includes(message, word) == word \in message

\* a thrown value: an Error or not, its .type ("" when it has none) and the
\* keywords its message contains
Err(type, words) == [isError |-> TRUE, type |-> type, words |-> words]

\* what pdf-lib may throw on bytes it cannot handle
ExternalThrows ==
  { Err("", {"parse"}), Err("", {"Invalid"}), Err("", {}), Err("", {"memory"}),
    [isError |-> FALSE, type |-> "", words |-> {}] }


\* ------------------------------------------------------------------ state
VARIABLES
  \* Home (page.tsx)
  mode, state, uploadedFile, uploadedFiles, splitPdfs, mergedPdf, errorInfo,
  processingProgress, draggedIndex,
  \* the running splitPdfPages / mergePdfFiles call
  pc, opKind, caller, arg, onProgress, i, totalPages, splitOut, mergedDoc,
  result, thrown,
  \* what the call has done so far: progress callbacks made, files whose bytes
  \* were read, documents created with PDFDocument.create
  ticks, reads, created,
  \* what the memory advisory of the call made of performance.memory
  advisory,
  \* the file most recently put to validation in split mode
  candidate,
  \* downloadPdfsAsZip: the page numbers ticked, the artifacts still to be
  \* added, the archive so far, and how far the call has come
  selectedPages, todo, zip, zipPc,
  \* handleFileSelect between the result of splitPdfPages and setSplitPdfs: how
  \* far Promise.all has come, and per artifact whether its generateThumbnail
  \* has settled and with what
  thumbPc, pdfsWithThumbnails,
  \* URL.createObjectURL / revokeObjectURL: the object URLs that are live, those
  \* with a setTimeout pending that will revoke them, and how many were made
  objectUrls, revokeTimers, urlsCreated

appVars == <<mode, state, uploadedFile, uploadedFiles, splitPdfs, mergedPdf,
             errorInfo, draggedIndex, candidate>>
callVars == <<pc, opKind, caller, arg, onProgress, i, totalPages, splitOut,
              mergedDoc, result, thrown, ticks, reads, created, advisory>>
zipVars == <<selectedPages, todo, zip, zipPc>>
thumbVars == <<thumbPc, pdfsWithThumbnails>>
urlVars == <<objectUrls, revokeTimers, urlsCreated>>
vars == <<appVars, processingProgress, callVars, zipVars, thumbVars, urlVars>>

\* ------------------------------------------------------ memory advisory
\* what 'memory' in performance gives: nothing (no such capability), or
\* performance.memory with its two heap figures in bytes
MemoryReports ==
  { <<>>,
    <<[jsHeapSizeLimit |-> 1024 * MB, usedJSHeapSize |-> 256 * MB]>>,
    <<[jsHeapSizeLimit |-> 2 * MB, usedJSHeapSize |-> 0]>>,
    <<[jsHeapSizeLimit |-> MB, usedJSHeapSize |-> MB]>> }

\* if ('memory' in performance): console.warn when
\* size / 1048576 > (jsHeapSizeLimit - usedJSHeapSize) / 1048576 * 0.5
memoryAdvisory(memory, size) ==
  IF memory = <<>> THEN "absent"
  ELSE IF 2 * size > memory[1].jsHeapSizeLimit - memory[1].usedJSHeapSize
       THEN "warned" ELSE "silent"

\* --------------------------------------------------- the pipeline boundary
\* mutant: the message is searched as it is spelled
splitCatch_caseSensitive(e) ==
  IF e.isError /\ e.type # "" THEN e
  ELSE IF e.isError
       THEN IF includes(e.words, "parse") \/ includes(e.words, "invalid")
            THEN Err(CORRUPTED_PDF, {})
            ELSE Err(PROCESSING_ERROR, e.words)
       ELSE Err(UNKNOWN_ERROR, {})

\* splitPdfPages catch: a typed Error leaves as it is; an untyped Error whose
\* message holds parse / invalid becomes CORRUPTED_PDF (fixed message), any
\* other Error PROCESSING_ERROR (its message appended), the rest UNKNOWN_ERROR
splitCatch(e) ==
  IF e.isError /\ e.type # "" THEN e
  ELSE IF e.isError
       THEN LET errorMessage == lowerMessage(e.words) IN
            IF includes(errorMessage, "parse") \/ includes(errorMessage, "invalid")
            THEN Err(CORRUPTED_PDF, {})
            ELSE Err(PROCESSING_ERROR, e.words)
       ELSE Err(UNKNOWN_ERROR, {})

mergeCatch(e) ==
  IF e.isError /\ e.type # "" THEN e
  ELSE IF e.isError
       THEN LET errorMessage == lowerMessage(e.words) IN
            IF includes(errorMessage, "parse") \/ includes(errorMessage, "invalid")
            THEN Err(CORRUPTED_PDF, {})
            ELSE Err(PROCESSING_ERROR, e.words)
       ELSE Err(UNKNOWN_ERROR, {})

\* a call begins: its locals are fresh
Begin(kind, who, files, cb) ==
  /\ pc' = IF kind = "split" THEN "s_start" ELSE "m_start"
  /\ opKind' = kind
  /\ caller' = who
  /\ arg' = files
  /\ onProgress' = cb
  /\ i' = 0
  /\ totalPages' = 0
  /\ splitOut' = <<>>
  /\ mergedDoc' = <<>>
  /\ result' = <<>>
  /\ thrown' = <<>>
  /\ ticks' = <<>>
  /\ reads' = <<>>
  /\ created' = 0
  /\ advisory' = "none"

\* the call ends with a rejection
Throw(e) ==
  /\ pc' = "done"
  /\ thrown' = <<e>>
  /\ UNCHANGED <<opKind, caller, arg, onProgress, i, totalPages, splitOut,
                 mergedDoc, result, ticks>>

\* mutant: the callback's two arguments change places
Tick_swapped(current, total) ==
  IF onProgress
  THEN /\ ticks' = Append(ticks, <<total, current>>)
       /\ processingProgress' =
            IF caller = "app" THEN <<[current |-> total, total |-> current]>>
            ELSE processingProgress
  ELSE UNCHANGED <<ticks, processingProgress>>

\* the progress callback Home passes: (current, total) => setProcessingProgress
Tick(current, total) ==
  IF onProgress
  THEN /\ ticks' = Append(ticks, <<current, total>>)
       /\ processingProgress' =
            IF caller = "app" THEN <<[current |-> current, total |-> total]>>
            ELSE processingProgress
  ELSE UNCHANGED <<ticks, processingProgress>>

\* --------------------------------------------------------- splitPdfPages
\* mutant: the size check turns away a file of exactly MAX_FILE_SIZE
SplitSizeCheck_inclusive ==
  /\ pc = "s_start"
  /\ IF Catalogue[arg[1]].size >= MAX_FILE_SIZE
     THEN /\ Throw(splitCatch(Err(FILE_TOO_LARGE, {})))
          /\ UNCHANGED <<reads, created>>
     ELSE /\ pc' = "s_load"
          /\ reads' = Append(reads, arg[1])
          /\ UNCHANGED <<opKind, caller, arg, onProgress, i, totalPages, splitOut,
                         mergedDoc, result, thrown, ticks, created>>
  /\ UNCHANGED <<advisory, urlVars, thumbVars, zipVars, appVars, processingProgress>>

\* size check, then file.arrayBuffer()
SplitSizeCheck ==
  /\ pc = "s_start"
  /\ IF Catalogue[arg[1]].size > MAX_FILE_SIZE
     THEN /\ Throw(splitCatch(Err(FILE_TOO_LARGE, {})))
          /\ UNCHANGED <<reads, created>>
     ELSE /\ pc' = "s_load"
          /\ reads' = Append(reads, arg[1])
          /\ UNCHANGED <<opKind, caller, arg, onProgress, i, totalPages, splitOut,
                         mergedDoc, result, thrown, ticks, created>>
  /\ UNCHANGED <<advisory, urlVars, thumbVars, zipVars, appVars, processingProgress>>

\* mutant: a file above half the available memory is turned away
SplitLoad_memoryGate ==
  /\ pc = "s_load"
  /\ \E memory \in MemoryReports :
       /\ advisory' = memoryAdvisory(memory, Catalogue[arg[1]].size)
       /\ IF memoryAdvisory(memory, Catalogue[arg[1]].size) = "warned"
          THEN /\ Throw(splitCatch(Err(MEMORY_ERROR, {})))
               /\ UNCHANGED created
          ELSE IF Catalogue[arg[1]].doc.ok
          THEN /\ pc' = "s_loop"
               /\ totalPages' = Len(Catalogue[arg[1]].doc.pages)
               /\ UNCHANGED <<opKind, caller, arg, onProgress, i, splitOut, mergedDoc,
                              result, thrown, ticks, created>>
          ELSE /\ \E e \in ExternalThrows : Throw(splitCatch(e))
               /\ UNCHANGED created
  /\ UNCHANGED <<urlVars, thumbVars, zipVars, appVars, processingProgress, reads>>

\* the memory advisory, then PDFDocument.load and getPageCount
SplitLoad ==
  /\ pc = "s_load"
  /\ \E memory \in MemoryReports :
       advisory' = memoryAdvisory(memory, Catalogue[arg[1]].size)
  /\ IF Catalogue[arg[1]].doc.ok
     THEN /\ pc' = "s_loop"
          /\ totalPages' = Len(Catalogue[arg[1]].doc.pages)
          /\ UNCHANGED <<opKind, caller, arg, onProgress, i, splitOut, mergedDoc,
                         result, thrown, ticks, created>>
     ELSE /\ \E e \in ExternalThrows : Throw(splitCatch(e))
          /\ UNCHANGED created
  /\ UNCHANGED <<urlVars, thumbVars, zipVars, appVars, processingProgress, reads>>

\* mutant: the name carries the last digit of the page number only
pageFileName_lastDigit(name, pageNumber) ==
  stripPdf(name) \o <<"_","p","a","g","e","_">>
    \o padStart(toString(pageNumber % 10), 2, "0") \o DotPdf

\* mutant: the page number is padded to three digits
pageFileName_padThree(name, pageNumber) ==
  stripPdf(name) \o <<"_","p","a","g","e","_">>
    \o padStart(toString(pageNumber), 3, "0") \o DotPdf

\* `${originalFileName}_page_${pageNumber.toString().padStart(2, '0')}.pdf`
pageFileName(name, pageNumber) ==
  stripPdf(name) \o <<"_","p","a","g","e","_">>
    \o padStart(toString(pageNumber), 2, "0") \o DotPdf

\* mutant: every artifact is given the first page (copyPages(pdfDoc, [0]))
splitArtifact_firstPage(f, k) ==
  [ pageNumber |-> k + 1,
    blob |-> <<Catalogue[f].doc.pages[1]>>,
    fileName |-> pageFileName(Catalogue[f].name, k + 1) ]

\* the artifact of page index k (0-based) of file f
splitArtifact(f, k) ==
  [ pageNumber |-> k + 1,
    blob |-> <<Catalogue[f].doc.pages[k + 1]>>,
    fileName |-> pageFileName(Catalogue[f].name, k + 1) ]

\* one turn of the loop up to splitPdfs.push, or the return after the loop
SplitPage ==
  /\ pc = "s_loop"
  /\ IF i < totalPages
     THEN IF Catalogue[arg[1]].doc.bad = i + 1
          THEN /\ \E e \in ExternalThrows : Throw(splitCatch(e))
               /\ created' = created + 1
          ELSE /\ pc' = "s_progress"
               /\ created' = created + 1
               /\ splitOut' = Append(splitOut, splitArtifact(arg[1], i))
               /\ UNCHANGED <<opKind, caller, arg, onProgress, i, totalPages,
                              mergedDoc, result, thrown, ticks>>
     ELSE /\ pc' = "done"
          /\ result' = <<splitOut>>
          /\ UNCHANGED <<opKind, caller, arg, onProgress, i, totalPages, splitOut,
                         mergedDoc, thrown, ticks, created>>
  /\ UNCHANGED <<advisory, urlVars, thumbVars, zipVars, appVars, processingProgress, reads>>

\* mutant: the callback is given the 0-based index
SplitProgress_zeroBased ==
  /\ pc = "s_progress"
  /\ Tick(i, totalPages)
  /\ i' = i + 1
  /\ pc' = "s_loop"
  /\ UNCHANGED <<advisory, urlVars, thumbVars, zipVars, appVars, opKind, caller, arg, onProgress, totalPages, splitOut,
                 mergedDoc, result, thrown, reads, created>>

\* if (onProgress) onProgress(i + 1, totalPages); i++
SplitProgress ==
  /\ pc = "s_progress"
  /\ Tick(i + 1, totalPages)
  /\ i' = i + 1
  /\ pc' = "s_loop"
  /\ UNCHANGED <<advisory, urlVars, thumbVars, zipVars, appVars, opKind, caller, arg, onProgress, totalPages, splitOut,
                 mergedDoc, result, thrown, reads, created>>

\* --------------------------------------------------------- mergePdfFiles
RECURSIVE sumSizes(_)
sumSizes(files) ==
  IF files = <<>> THEN 0
  ELSE Catalogue[Head(files)].size + sumSizes(Tail(files))

\* mutant: the check for a single file is missing
MergeChecks_noSingle ==
  /\ pc = "m_start"
  /\ IF Len(arg) = 0
     THEN Throw(mergeCatch(Err(INVALID_FILE_TYPE, {}))) /\ UNCHANGED <<created, advisory>>
     ELSE IF sumSizes(arg) > MAX_TOTAL_SIZE
     THEN Throw(mergeCatch(Err(FILE_TOO_LARGE, {}))) /\ UNCHANGED <<created, advisory>>
     ELSE /\ pc' = "m_loop"
          /\ \E memory \in MemoryReports :
               advisory' = memoryAdvisory(memory, sumSizes(arg))
          /\ created' = created + 1
          /\ UNCHANGED <<opKind, caller, arg, onProgress, i, totalPages, splitOut,
                         mergedDoc, result, thrown, ticks>>
  /\ UNCHANGED <<urlVars, thumbVars, zipVars, appVars, processingProgress, reads>>

\* mutant: the total size check turns away a total of exactly MAX_TOTAL_SIZE
MergeChecks_inclusive ==
  /\ pc = "m_start"
  /\ IF Len(arg) = 0
     THEN Throw(mergeCatch(Err(INVALID_FILE_TYPE, {}))) /\ UNCHANGED <<created, advisory>>
     ELSE IF Len(arg) = 1
     THEN Throw(mergeCatch(Err(INVALID_FILE_TYPE, {}))) /\ UNCHANGED <<created, advisory>>
     ELSE IF sumSizes(arg) >= MAX_TOTAL_SIZE
     THEN Throw(mergeCatch(Err(FILE_TOO_LARGE, {}))) /\ UNCHANGED <<created, advisory>>
     ELSE /\ pc' = "m_loop"
          /\ \E memory \in MemoryReports :
               advisory' = memoryAdvisory(memory, sumSizes(arg))
          /\ created' = created + 1
          /\ UNCHANGED <<opKind, caller, arg, onProgress, i, totalPages, splitOut,
                         mergedDoc, result, thrown, ticks>>
  /\ UNCHANGED <<urlVars, thumbVars, zipVars, appVars, processingProgress, reads>>

\* the count checks, the total size check, the memory advisory, then
\* PDFDocument.create()
MergeChecks ==
  /\ pc = "m_start"
  /\ IF Len(arg) = 0
     THEN Throw(mergeCatch(Err(INVALID_FILE_TYPE, {}))) /\ UNCHANGED <<created, advisory>>
     ELSE IF Len(arg) = 1
     THEN Throw(mergeCatch(Err(INVALID_FILE_TYPE, {}))) /\ UNCHANGED <<created, advisory>>
     ELSE IF sumSizes(arg) > MAX_TOTAL_SIZE
     THEN Throw(mergeCatch(Err(FILE_TOO_LARGE, {}))) /\ UNCHANGED <<created, advisory>>
     ELSE /\ pc' = "m_loop"
          /\ \E memory \in MemoryReports :
               advisory' = memoryAdvisory(memory, sumSizes(arg))
          /\ created' = created + 1
          /\ UNCHANGED <<opKind, caller, arg, onProgress, i, totalPages, splitOut,
                         mergedDoc, result, thrown, ticks>>
  /\ UNCHANGED <<urlVars, thumbVars, zipVars, appVars, processingProgress, reads>>

\* the merged artifact: the saved document, the name from files[0], the counter
mergeResult(files, doc, count) ==
  [ blob |-> doc,
    fileName |-> stripPdf(Catalogue[files[1]].name)
                   \o <<"_","m","e","r","g","e","d">> \o DotPdf,
    totalPages |-> count ]

\* mutant: the pages of a document are appended last page first
copyAll_reversed(doc) == [k \in 1..Len(doc.pages) |-> doc.pages[Len(doc.pages) + 1 - k]]

\* the pages copyPages hands back for a loaded document, in index order
copyAll(doc) == [k \in 1..Len(doc.pages) |-> doc.pages[k]]

\* one turn of the loop up to totalPages += pageCount, or save and return
MergeFile ==
  /\ pc = "m_loop"
  /\ IF i < Len(arg)
     THEN LET file == arg[i + 1]
              doc == Catalogue[file].doc
          IN /\ reads' = Append(reads, file)
             /\ IF ~doc.ok \/ doc.bad # 0
                THEN \E e \in ExternalThrows : Throw(mergeCatch(e))
                ELSE /\ pc' = "m_progress"
                     /\ mergedDoc' = mergedDoc \o copyAll(doc)
                     /\ totalPages' = totalPages + Len(doc.pages)
                     /\ UNCHANGED <<opKind, caller, arg, onProgress, i, splitOut,
                                    result, thrown, ticks>>
     ELSE /\ pc' = "done"
          /\ result' = <<mergeResult(arg, mergedDoc, totalPages)>>
          /\ UNCHANGED <<opKind, caller, arg, onProgress, i, totalPages, splitOut,
                         mergedDoc, thrown, ticks, reads>>
  /\ UNCHANGED <<advisory, urlVars, thumbVars, zipVars, appVars, processingProgress, created>>

\* mutant: the callback is given the pages merged so far
MergeProgress_pages ==
  /\ pc = "m_progress"
  /\ Tick(totalPages, Len(arg))
  /\ i' = i + 1
  /\ pc' = "m_loop"
  /\ UNCHANGED <<advisory, urlVars, thumbVars, zipVars, appVars, opKind, caller, arg, onProgress, totalPages, splitOut,
                 mergedDoc, result, thrown, reads, created>>

\* if (onProgress) onProgress(i + 1, files.length); i++
MergeProgress ==
  /\ pc = "m_progress"
  /\ Tick(i + 1, Len(arg))
  /\ i' = i + 1
  /\ pc' = "m_loop"
  /\ UNCHANGED <<advisory, urlVars, thumbVars, zipVars, appVars, opKind, caller, arg, onProgress, totalPages, splitOut,
                 mergedDoc, result, thrown, reads, created>>

Pipeline == SplitSizeCheck \/ SplitLoad \/ SplitPage \/ SplitProgress
              \/ MergeChecks \/ MergeFile \/ MergeProgress

\* ------------------------------------------------------------- Home: helpers
\* mutant: the size is checked before the name and the type
validateFile_sizeFirst(file) ==
  IF Catalogue[file].size > MAX_FILE_SIZE
  THEN <<[type |-> FILE_TOO_LARGE, message |-> "error.fileTooLarge",
         solution |-> "error.fileTooLargeSolution"]>>
  ELSE IF ~endsWith(toLowerCase(Catalogue[file].name), DotPdf)
  THEN <<[type |-> INVALID_FILE_TYPE, message |-> "error.invalidFileType",
         solution |-> "error.invalidFileTypeSolution"]>>
  ELSE IF Catalogue[file].type # "" /\ Catalogue[file].type # PDF
  THEN <<[type |-> INVALID_FILE_TYPE, message |-> "error.invalidFileType",
         solution |-> "error.invalidFileTypeSolution"]>>
  ELSE <<>>

\* validateFile: the error record it sets (none when it returns true)
validateFile(file) ==
  IF ~endsWith(toLowerCase(Catalogue[file].name), DotPdf)
  THEN <<[type |-> INVALID_FILE_TYPE, message |-> "error.invalidFileType",
         solution |-> "error.invalidFileTypeSolution"]>>
  ELSE IF Catalogue[file].type # "" /\ Catalogue[file].type # PDF
  THEN <<[type |-> INVALID_FILE_TYPE, message |-> "error.invalidFileType",
         solution |-> "error.invalidFileTypeSolution"]>>
  ELSE IF Catalogue[file].size > MAX_FILE_SIZE
  THEN <<[type |-> FILE_TOO_LARGE, message |-> "error.fileTooLarge",
         solution |-> "error.fileTooLargeSolution"]>>
  ELSE <<>>

\* validateFile over every file of the catalogue
Validation == [file \in Files |-> validateFile(file)]

\* mutant: a file counts as valid once its name ends in .pdf
isValid_nameOnly(file) == endsWith(toLowerCase(Catalogue[file].name), DotPdf)

isValid(file) == Validation[file] = <<>>

\* mutant: the processing / parse rule is tried first
getErrorInfo_parseFirst(e) ==
  LET errorMessage == lowerMessage(e.words) IN
  IF e.isError /\ (includes(errorMessage, "processing") \/ includes(errorMessage, "parse"))
  THEN ERROR_MESSAGES(PROCESSING_ERROR)
  ELSE IF e.isError /\ (includes(errorMessage, "invalid") \/ includes(errorMessage, "format"))
  THEN ERROR_MESSAGES(INVALID_FILE_TYPE)
  ELSE IF e.isError /\ (includes(errorMessage, "large") \/ includes(errorMessage, "size"))
  THEN ERROR_MESSAGES(FILE_TOO_LARGE)
  ELSE IF e.isError /\ (includes(errorMessage, "corrupt") \/ includes(errorMessage, "damaged"))
  THEN ERROR_MESSAGES(CORRUPTED_PDF)
  ELSE IF e.isError /\ includes(errorMessage, "memory")
  THEN ERROR_MESSAGES(MEMORY_ERROR)
  ELSE ERROR_MESSAGES(UNKNOWN_ERROR)

\* getErrorInfo: the keyword rules over the lower-cased message, in the code's
\* order; the .type of the caught value is not looked at
getErrorInfo(e) ==
  LET errorMessage == lowerMessage(e.words) IN
  IF e.isError /\ (includes(errorMessage, "invalid") \/ includes(errorMessage, "format"))
  THEN ERROR_MESSAGES(INVALID_FILE_TYPE)
  ELSE IF e.isError /\ (includes(errorMessage, "large") \/ includes(errorMessage, "size"))
  THEN ERROR_MESSAGES(FILE_TOO_LARGE)
  ELSE IF e.isError /\ (includes(errorMessage, "corrupt") \/ includes(errorMessage, "damaged"))
  THEN ERROR_MESSAGES(CORRUPTED_PDF)
  ELSE IF e.isError /\ includes(errorMessage, "memory")
  THEN ERROR_MESSAGES(MEMORY_ERROR)
  ELSE IF e.isError /\ (includes(errorMessage, "processing") \/ includes(errorMessage, "parse"))
  THEN ERROR_MESSAGES(PROCESSING_ERROR)
  ELSE ERROR_MESSAGES(UNKNOWN_ERROR)

minFilesRequired ==
  [type |-> INVALID_FILE_TYPE, message |-> "error.minFilesRequired",
   solution |-> "error.minFilesRequiredSolution"]

\* no call is running: the locals of the last one are gone
NoCall(who) ==
  /\ pc' = "idle"
  /\ opKind' = "none"
  /\ caller' = who
  /\ arg' = <<>>
  /\ onProgress' = FALSE
  /\ i' = 0
  /\ totalPages' = 0
  /\ splitOut' = <<>>
  /\ mergedDoc' = <<>>
  /\ result' = <<>>
  /\ thrown' = <<>>
  /\ ticks' = <<>>
  /\ reads' = <<>>
  /\ created' = 0
  /\ advisory' = "none"

\* -------------------------------------------------------- Home: handlers
\* handleFileSelect up to its first await (split) or to its end (merge)
handleFileSelect(files) ==
  IF mode = "split"
  THEN LET file == files[1] IN
       IF ~isValid(file)
       THEN /\ errorInfo' = Validation[file]
            /\ state' = "error"
            /\ candidate' = <<file>>
            /\ UNCHANGED <<urlVars, thumbVars, zipVars, mode, uploadedFile, uploadedFiles, splitPdfs, mergedPdf,
                           draggedIndex, processingProgress, callVars>>
       ELSE /\ uploadedFile' = <<file>>
            /\ uploadedFiles' = <<>>
            /\ state' = "processing"
            /\ errorInfo' = <<>>
            /\ processingProgress' = <<>>
            /\ candidate' = <<file>>
            /\ Begin("split", "app", <<file>>, TRUE)
            /\ UNCHANGED <<urlVars, thumbVars, zipVars, mode, splitPdfs, mergedPdf, draggedIndex>>
  ELSE LET validFiles == SelectSeq(files, isValid) IN
       IF Len(validFiles) < 2
       THEN /\ errorInfo' = <<minFilesRequired>>
            /\ state' = "error"
            /\ candidate' = <<>>
            /\ UNCHANGED <<urlVars, thumbVars, zipVars, mode, uploadedFile, uploadedFiles, splitPdfs, mergedPdf,
                           draggedIndex, processingProgress, callVars>>
       ELSE /\ uploadedFile' = <<>>
            /\ uploadedFiles' = validFiles
            /\ state' = "file-selected"
            /\ errorInfo' = <<>>
            /\ processingProgress' = <<>>
            /\ candidate' = <<>>
            /\ UNCHANGED <<urlVars, thumbVars, zipVars, mode, splitPdfs, mergedPdf, draggedIndex, callVars>>

\* a thumbnail is the rendering of page 1 of the artifact, or empty on failure
generateThumbnail(blob, fails) == IF fails THEN <<>> ELSE <<blob[1]>>

\* results.map(async (pdf) => ...): every generateThumbnail call is made, and
\* runs to its first await, before any of them settles
ThumbnailsStart ==
  /\ pc = "done" /\ opKind = "split" /\ caller = "app" /\ result # <<>>
  /\ thumbPc = "none"
  /\ thumbPc' = "rendering"
  /\ pdfsWithThumbnails' =
       [k \in 1..Len(result[1]) |-> [settled |-> FALSE, thumbnail |-> <<>>]]
  /\ UNCHANGED <<urlVars, zipVars, appVars, processingProgress, callVars>>

\* one generateThumbnail call settles, with the rendering or with ''
ThumbnailSettles(k) ==
  /\ thumbPc = "rendering"
  /\ k \in 1..Len(pdfsWithThumbnails)
  /\ ~pdfsWithThumbnails[k].settled
  /\ \E fails \in BOOLEAN :
       pdfsWithThumbnails' =
         [pdfsWithThumbnails EXCEPT
            ![k] = [settled |-> TRUE,
                    thumbnail |-> generateThumbnail(result[1][k].blob, fails)]]
  /\ UNCHANGED <<urlVars, thumbPc, zipVars, appVars, processingProgress, callVars>>

\* Promise.all resolves once every call has settled
AllSettled ==
  /\ thumbPc = "rendering"
  /\ \A k \in 1..Len(pdfsWithThumbnails) : pdfsWithThumbnails[k].settled

\* mutant: a thumbnail that cannot be rendered rejects Promise.all
SplitCompleted_thumbnailThrows ==
  /\ pc = "done" /\ opKind = "split" /\ caller = "app" /\ result # <<>>
  /\ AllSettled
  /\ IF \A k \in 1..Len(result[1]) : pdfsWithThumbnails[k].thumbnail # <<>>
     THEN /\ splitPdfs' = [k \in 1..Len(result[1]) |->
                     [ pageNumber |-> result[1][k].pageNumber,
                       blob |-> result[1][k].blob,
                       fileName |-> result[1][k].fileName,
                       thumbnail |-> pdfsWithThumbnails[k].thumbnail ]]
          /\ state' = "completed"
          /\ errorInfo' = errorInfo
     ELSE /\ splitPdfs' = splitPdfs
          /\ state' = "error"
          /\ errorInfo' = <<ERROR_MESSAGES(UNKNOWN_ERROR)>>
  /\ mergedPdf' = <<>>
  /\ candidate' = <<>>
  /\ thumbPc' = "none"
  /\ pdfsWithThumbnails' = <<>>
  /\ NoCall("app")
  /\ UNCHANGED <<urlVars, zipVars, mode, uploadedFile, uploadedFiles, draggedIndex, processingProgress>>

\* mutant: the result is shown as soon as the renders have been started
SplitCompleted_early ==
  /\ pc = "done" /\ opKind = "split" /\ caller = "app" /\ result # <<>>
  /\ thumbPc = "rendering"
  /\ splitPdfs' = [k \in 1..Len(result[1]) |->
                     [ pageNumber |-> result[1][k].pageNumber,
                       blob |-> result[1][k].blob,
                       fileName |-> result[1][k].fileName,
                       thumbnail |-> pdfsWithThumbnails[k].thumbnail ]]
  /\ mergedPdf' = <<>>
  /\ state' = "completed"
  /\ candidate' = <<>>
  /\ thumbPc' = "none"
  /\ pdfsWithThumbnails' = <<>>
  /\ NoCall("app")
  /\ UNCHANGED <<urlVars, zipVars, mode, uploadedFile, uploadedFiles, errorInfo, draggedIndex,
                 processingProgress>>

\* handleFileSelect after Promise.all resolved: the artifacts in the order of
\* results, each with its own thumbnail
SplitCompleted ==
  /\ pc = "done" /\ opKind = "split" /\ caller = "app" /\ result # <<>>
  /\ AllSettled
  /\ splitPdfs' = [k \in 1..Len(result[1]) |->
                     [ pageNumber |-> result[1][k].pageNumber,
                       blob |-> result[1][k].blob,
                       fileName |-> result[1][k].fileName,
                       thumbnail |-> pdfsWithThumbnails[k].thumbnail ]]
  /\ mergedPdf' = <<>>
  /\ state' = "completed"
  /\ candidate' = <<>>
  /\ thumbPc' = "none"
  /\ pdfsWithThumbnails' = <<>>
  /\ NoCall("app")
  /\ UNCHANGED <<urlVars, zipVars, mode, uploadedFile, uploadedFiles, errorInfo, draggedIndex,
                 processingProgress>>

\* mutant: the catch block shows the pages made before the failure
SplitFailed_keepsPartial ==
  /\ pc = "done" /\ opKind = "split" /\ caller = "app" /\ thrown # <<>>
  /\ errorInfo' = <<getErrorInfo(thrown[1])>>
  /\ state' = "error"
  /\ candidate' = <<>>
  /\ splitPdfs' = [k \in 1..Len(splitOut) |->
                     [ pageNumber |-> splitOut[k].pageNumber,
                       blob |-> splitOut[k].blob,
                       fileName |-> splitOut[k].fileName,
                       thumbnail |-> <<>> ]]
  /\ NoCall("app")
  /\ UNCHANGED <<urlVars, thumbVars, zipVars, mode, uploadedFile, uploadedFiles, mergedPdf, draggedIndex,
                 processingProgress>>

\* handleFileSelect catch
SplitFailed ==
  /\ pc = "done" /\ opKind = "split" /\ caller = "app" /\ thrown # <<>>
  /\ errorInfo' = <<getErrorInfo(thrown[1])>>
  /\ state' = "error"
  /\ candidate' = <<>>
  /\ NoCall("app")
  /\ UNCHANGED <<urlVars, thumbVars, zipVars, mode, uploadedFile, uploadedFiles, splitPdfs, mergedPdf, draggedIndex,
                 processingProgress>>

\* mutant: the merge list survives a reset
handleReset_keepsFiles ==
  /\ state' = "upload"
  /\ uploadedFile' = <<>>
  /\ uploadedFiles' = uploadedFiles
  /\ splitPdfs' = <<>>
  /\ mergedPdf' = <<>>
  /\ errorInfo' = <<>>
  /\ processingProgress' = <<>>
  /\ candidate' = <<>>
  /\ UNCHANGED <<draggedIndex, callVars, zipVars, thumbVars, urlVars>>

\* handleReset: everything but the mode
handleReset ==
  /\ state' = "upload"
  /\ uploadedFile' = <<>>
  /\ uploadedFiles' = <<>>
  /\ splitPdfs' = <<>>
  /\ mergedPdf' = <<>>
  /\ errorInfo' = <<>>
  /\ processingProgress' = <<>>
  /\ candidate' = <<>>
  /\ UNCHANGED <<draggedIndex, callVars, zipVars, thumbVars, urlVars>>

\* where a reset button is rendered
ResetShown ==
  \/ state = "file-selected" /\ mode = "merge"
  \/ state = "error" /\ errorInfo # <<>>
  \/ state = "completed" /\ mode = "split"
  \/ state = "completed" /\ mode = "merge" /\ mergedPdf # <<>>

Reset == ResetShown /\ handleReset /\ UNCHANGED mode

\* mutant: the mode buttons are shown in every view
SetMode_everyView(m) ==
  /\ state # "unmounted"
  /\ mode' = m
  /\ handleReset

\* the two mode buttons: setMode, then handleReset
SetMode(m) ==
  /\ state \in {"upload", "file-selected"}
  /\ mode' = m
  /\ handleReset

handleRetry ==
  /\ state = "error" /\ errorInfo # <<>>
  /\ IF mode = "split" /\ uploadedFile # <<>>
     THEN handleFileSelect(<<uploadedFile[1]>>)
     ELSE IF mode = "merge" /\ Len(uploadedFiles) > 0
     THEN handleFileSelect(uploadedFiles)
     ELSE handleReset /\ UNCHANGED mode

\* handleMerge up to its first await
handleMerge ==
  /\ state = "file-selected" /\ mode = "merge"
  /\ Len(uploadedFiles) >= 2          \* the button is disabled below 2 files
  /\ IF Len(uploadedFiles) < 2
     THEN /\ errorInfo' = <<minFilesRequired>>
          /\ state' = "error"
          /\ UNCHANGED <<processingProgress, callVars>>
     ELSE /\ state' = "processing"
          /\ errorInfo' = <<>>
          /\ processingProgress' = <<>>
          /\ Begin("merge", "app", uploadedFiles, TRUE)
  /\ candidate' = <<>>
  /\ UNCHANGED <<urlVars, thumbVars, zipVars, mode, uploadedFile, uploadedFiles, splitPdfs, mergedPdf, draggedIndex>>

\* handleMerge after mergePdfFiles resolved
MergeCompleted ==
  /\ pc = "done" /\ opKind = "merge" /\ caller = "app" /\ result # <<>>
  /\ mergedPdf' = result
  /\ splitPdfs' = <<>>
  /\ state' = "completed"
  /\ NoCall("app")
  /\ UNCHANGED <<urlVars, thumbVars, zipVars, mode, uploadedFile, uploadedFiles, errorInfo, draggedIndex, candidate,
                 processingProgress>>

\* mutant: the catch block shows 'error' without setting the record
MergeFailed_noRecord ==
  /\ pc = "done" /\ opKind = "merge" /\ caller = "app" /\ thrown # <<>>
  /\ state' = "error"
  /\ NoCall("app")
  /\ UNCHANGED <<urlVars, thumbVars, zipVars, mode, uploadedFile, uploadedFiles, splitPdfs,
                 mergedPdf, errorInfo, draggedIndex, candidate, processingProgress>>

\* handleMerge catch
MergeFailed ==
  /\ pc = "done" /\ opKind = "merge" /\ caller = "app" /\ thrown # <<>>
  /\ errorInfo' = <<getErrorInfo(thrown[1])>>
  /\ state' = "error"
  /\ NoCall("app")
  /\ UNCHANGED <<urlVars, thumbVars, zipVars, mode, uploadedFile, uploadedFiles, splitPdfs, mergedPdf, draggedIndex,
                 candidate, processingProgress>>

\* Array.splice(k, 1) and Array.splice(k, 0, x), positions counted from 1
removeAt(s, k) ==
  IF k > Len(s) THEN s ELSE SubSeq(s, 1, k - 1) \o SubSeq(s, k + 1, Len(s))
insertAt(s, k, x) ==
  LET at == IF k > Len(s) + 1 THEN Len(s) + 1 ELSE k
  IN SubSeq(s, 1, at - 1) \o <<x>> \o SubSeq(s, at, Len(s))

\* mutant: the two rows change places
moveFile_swap(files, fromIndex, toIndex) ==
  [k \in 1..Len(files) |->
     IF k = toIndex /\ fromIndex \in 1..Len(files) THEN files[fromIndex]
     ELSE IF k = fromIndex /\ toIndex \in 1..Len(files) THEN files[toIndex]
     ELSE files[k]]

\* moveFile: an index past the end takes nothing out and puts undefined in
moveFile(files, fromIndex, toIndex) ==
  LET removed == IF fromIndex \in 1..Len(files) THEN files[fromIndex] ELSE "undefined"
  IN insertAt(removeAt(files, fromIndex), toIndex, removed)

FileListShown == state = "file-selected" /\ mode = "merge"

\* mutant: the list view stays whatever is left
removeFile_keepsView(index) ==
  /\ FileListShown
  /\ index \in 1..Len(uploadedFiles)
  /\ uploadedFiles' = removeAt(uploadedFiles, index)
  /\ UNCHANGED <<urlVars, thumbVars, zipVars, mode, state, uploadedFile, splitPdfs, mergedPdf,
                 errorInfo, draggedIndex, candidate, processingProgress, callVars>>

\* removeFile, the X button of a list row
removeFile(index) ==
  /\ FileListShown
  /\ index \in 1..Len(uploadedFiles)
  /\ uploadedFiles' = removeAt(uploadedFiles, index)
  /\ state' = IF Len(uploadedFiles) - 1 < 2 THEN "upload" ELSE state
  /\ UNCHANGED <<urlVars, thumbVars, zipVars, mode, uploadedFile, splitPdfs, mergedPdf, errorInfo, draggedIndex,
                 candidate, processingProgress, callVars>>

\* a list row starts to be dragged
handleFileDragStart(index) ==
  /\ FileListShown
  /\ index \in 1..Len(uploadedFiles)
  /\ draggedIndex' = <<index>>
  /\ UNCHANGED <<urlVars, thumbVars, zipVars, mode, state, uploadedFile, uploadedFiles, splitPdfs, mergedPdf,
                 errorInfo, candidate, processingProgress, callVars>>

\* something is dropped on a list row while a row index is remembered; rendering
\* a list that holds undefined throws, and the ErrorBoundary takes Home's place
handleFileDrop(dropIndex) ==
  /\ FileListShown
  /\ dropIndex \in 1..Len(uploadedFiles)
  /\ draggedIndex # <<>>
  /\ LET newFiles == IF draggedIndex[1] # dropIndex
                     THEN moveFile(uploadedFiles, draggedIndex[1], dropIndex)
                     ELSE uploadedFiles
     IN /\ uploadedFiles' = newFiles
        /\ state' = IF \E k \in 1..Len(newFiles) : newFiles[k] = "undefined"
                    THEN "unmounted" ELSE state
  /\ draggedIndex' = <<>>
  /\ UNCHANGED <<urlVars, thumbVars, zipVars, mode, uploadedFile, splitPdfs, mergedPdf, errorInfo, candidate,
                 processingProgress, callVars>>

\* mutant: handleDrop without its early return on the state
DropTaken_anyState == draggedIndex = <<>> /\ state # "unmounted"

\* handleDrop goes past its two early returns
DropTaken ==
  /\ draggedIndex = <<>>
  /\ state = "upload" \/ state = "file-selected"

\* handleClick, or the add-file button of the list view, opens the file dialog
DialogOpens == state = "upload" \/ (state = "file-selected" /\ mode = "merge")

\* the .pdf-named ones among the dropped files
NamedPdf == {f \in Files : endsWith(toLowerCase(Catalogue[f].name), DotPdf)}

droppedPdfs(dropped) == SelectSeq(dropped, LAMBDA f : f \in NamedPdf)

\* files are dropped on the page (past DropTaken); with no dropped file named
\* .pdf the handler returns with nothing changed
handleDrop(dropped) ==
  /\ LET files == droppedPdfs(dropped)
     IN /\ Len(files) > 0
        /\ IF mode = "split" THEN handleFileSelect(<<files[1]>>)
           ELSE IF state = "file-selected"
           THEN /\ Len(uploadedFiles) + Len(files) <= MaxFiles
                /\ uploadedFiles' = uploadedFiles \o files
                /\ UNCHANGED <<urlVars, thumbVars, zipVars, mode, state, uploadedFile, splitPdfs, mergedPdf,
                               errorInfo, draggedIndex, candidate, processingProgress,
                               callVars>>
           ELSE handleFileSelect(files)

\* the file dialog returns with the picked files
handleFileInputChange(picked) ==
  /\ mode = "split" => Len(picked) = 1     \* multiple={mode === 'merge'}
  /\ IF mode = "merge" /\ state = "file-selected"
     THEN /\ Len(uploadedFiles) + Len(picked) <= MaxFiles
          /\ uploadedFiles' = uploadedFiles \o picked
          /\ UNCHANGED <<urlVars, thumbVars, zipVars, mode, state, uploadedFile, splitPdfs, mergedPdf, errorInfo,
                         draggedIndex, candidate, processingProgress, callVars>>
     ELSE handleFileSelect(picked)

\* the ErrorBoundary's reset button mounts a fresh Home
ZipInit == selectedPages = {} /\ todo = <<>> /\ zip = <<>> /\ zipPc = "none"

ThumbInit == thumbPc = "none" /\ pdfsWithThumbnails = <<>>

UrlInit == objectUrls = {} /\ revokeTimers = {} /\ urlsCreated = 0

HomeInit ==
  /\ ZipInit
  /\ ThumbInit
  /\ UrlInit
  /\ mode = "split"
  /\ state = "upload"
  /\ uploadedFile = <<>>
  /\ uploadedFiles = <<>>
  /\ splitPdfs = <<>>
  /\ mergedPdf = <<>>
  /\ errorInfo = <<>>
  /\ processingProgress = <<>>
  /\ draggedIndex = <<>>
  /\ candidate = <<>>

CallInit(who) ==
  /\ pc = "idle" /\ opKind = "none" /\ caller = who /\ arg = <<>>
  /\ onProgress = FALSE /\ i = 0 /\ totalPages = 0 /\ splitOut = <<>>
  /\ mergedDoc = <<>> /\ result = <<>> /\ thrown = <<>> /\ ticks = <<>>
  /\ reads = <<>> /\ created = 0 /\ advisory = "none"

ErrorBoundaryReset ==
  /\ state = "unmounted"
  /\ mode' = "split"
  /\ state' = "upload"
  /\ uploadedFile' = <<>>
  /\ uploadedFiles' = <<>>
  /\ splitPdfs' = <<>>
  /\ mergedPdf' = <<>>
  /\ errorInfo' = <<>>
  /\ processingProgress' = <<>>
  /\ draggedIndex' = <<>>
  /\ candidate' = <<>>
  /\ UNCHANGED <<callVars, zipVars, thumbVars, urlVars>>

\* ------------------------------------------------------ the app as a whole
\* the files handed to the app
Shown == {f \in Files : Len(Catalogue[f].doc.pages) <= MaxShown}

Selections == SeqsUpTo(Shown, MaxSelect) \ {<<>>}

Init == HomeInit /\ CallInit("app")

Next ==
  \/ /\ DialogOpens
     /\ \E picked \in Selections : handleFileInputChange(picked)
  \/ /\ DropTaken
     /\ \E dropped \in Selections : handleDrop(dropped)
  \/ handleRetry
  \/ Reset
  \/ \E m \in {"split", "merge"} : SetMode(m)
  \/ handleMerge
  \/ \E index \in 1..MaxFiles : removeFile(index)
  \/ \E index \in 1..MaxFiles : handleFileDragStart(index)
  \/ \E index \in 1..MaxFiles : handleFileDrop(index)
  \/ ErrorBoundaryReset
  \/ Pipeline
  \/ ThumbnailsStart
  \/ \E k \in 1..MaxShown : ThumbnailSettles(k)
  \/ SplitCompleted
  \/ SplitFailed
  \/ MergeCompleted
  \/ MergeFailed

Spec == Init /\ [][Next]_vars

\* ------------------------------------- the two functions called directly
SplitCall(file, cb) ==
  /\ Begin("split", "lib", <<file>>, cb)
  /\ UNCHANGED <<urlVars, thumbVars, zipVars, appVars, processingProgress>>

MergeCall(files, cb) ==
  /\ Begin("merge", "lib", files, cb)
  /\ UNCHANGED <<urlVars, thumbVars, zipVars, appVars, processingProgress>>

\* the caller has taken the result or the rejection
Settled ==
  /\ pc = "done"
  /\ NoCall("lib")
  /\ zipPc # "adding"
  /\ selectedPages' = {}
  /\ todo' = <<>>
  /\ zip' = <<>>
  /\ zipPc' = "none"
  /\ UNCHANGED <<urlVars, thumbVars, appVars, processingProgress>>

\* zip.file(name, data): an entry of that name is replaced, else one is added
zipFile(archive, name, data) ==
  IF \E j \in 1..Len(archive) : archive[j].name = name
  THEN [j \in 1..Len(archive) |->
          IF archive[j].name = name THEN [name |-> name, data |-> data] ELSE archive[j]]
  ELSE Append(archive, [name |-> name, data |-> data])

\* splitPdfs.filter((pdf) => selectedPages.has(pdf.pageNumber))
selectedPdfs(pdfs, selected) == SelectSeq(pdfs, LAMBDA pdf : pdf.pageNumber \in selected)

\* the caller of a split that returned ticks pages and calls downloadPdfsAsZip
\* on the ticked artifacts: new JSZip()
ZipCall(selected) ==
  /\ selectedPages' = selected
  /\ todo' = selectedPdfs(result[1], selected)
  /\ zip' = <<>>
  /\ zipPc' = "adding"
  /\ UNCHANGED <<urlVars, thumbVars, appVars, processingProgress, callVars>>

\* one turn of the loop: await pdf.blob.arrayBuffer(); zip.file(pdf.fileName, ...)
ZipEntry ==
  /\ zipPc = "adding" /\ todo # <<>>
  /\ zip' = zipFile(zip, Head(todo).fileName, Head(todo).blob)
  /\ todo' = Tail(todo)
  /\ UNCHANGED <<selectedPages, zipPc, urlVars, thumbVars, appVars, processingProgress, callVars>>

\* after the loop: zip.generateAsync and the download of the archive
ZipGenerate ==
  /\ zipPc = "adding" /\ todo = <<>>
  /\ zipPc' = "generated"
  /\ UNCHANGED <<selectedPages, zip, todo, urlVars, thumbVars, appVars, processingProgress, callVars>>

\* the ticked sets tried on a result of n pages: every set of one or two pages,
\* and the first m pages for every m (m = n: all pages)
PageSets(n) == {{x, y} : x, y \in 1..n} \cup {1..m : m \in 0..n}

InitCalls == HomeInit /\ CallInit("lib")

MergeArgs == SeqsUpTo(Files, MaxFiles)

NextCalls ==
  \/ /\ pc = "idle"
     /\ \E file \in Files, cb \in BOOLEAN : SplitCall(file, cb)
  \/ /\ pc = "idle"
     /\ \E files \in MergeArgs, cb \in BOOLEAN : MergeCall(files, cb)
  \/ /\ pc = "done" /\ opKind = "split" /\ result # <<>> /\ zipPc = "none"
     /\ \E selected \in PageSets(Len(result[1])) : ZipCall(selected)
  \/ ZipEntry
  \/ ZipGenerate
  \/ Pipeline
  \/ Settled

SpecCalls == InitCalls /\ [][NextCalls]_vars

\* ------------------------------------------- getErrorInfo called directly
\* the words the keyword rules look for, as a message may spell them
MessageWords ==
  {"invalid", "format", "large", "size", "corrupt", "damaged", "memory",
   "processing", "parse"} \cup {Capitalised[k] : k \in 1..Len(Capitalised)}

Messages == {ws \in SUBSET MessageWords : Cardinality(ws) <= MaxWords}

\* the values a catch block may hold: Errors with or without a .type, and
\* values that are no Error (a thrown string, a rejected plain object)
Caught ==
  [isError : {TRUE}, type : ErrorType \cup {""}, words : Messages]
    \cup [isError : {FALSE}, type : {""}, words : Messages]

\* const error = getErrorInfo(err); setErrorInfo(error); setState('error')
Classify ==
  /\ state = "processing" /\ pc = "done" /\ thrown # <<>>
  /\ errorInfo' = <<getErrorInfo(thrown[1])>>
  /\ state' = "error"
  /\ UNCHANGED <<urlVars, thumbVars, zipVars, mode, uploadedFile, uploadedFiles, splitPdfs, mergedPdf, draggedIndex,
                 candidate, processingProgress, callVars>>

InitClassify ==
  /\ ZipInit
  /\ ThumbInit
  /\ UrlInit
  /\ mode \in {"split", "merge"}
  /\ state = "processing"
  /\ uploadedFile = <<>> /\ uploadedFiles = <<>> /\ splitPdfs = <<>>
  /\ mergedPdf = <<>> /\ errorInfo = <<>> /\ processingProgress = <<>>
  /\ draggedIndex = <<>> /\ candidate = <<>>
  /\ pc = "done" /\ opKind = "none" /\ caller = "lib" /\ arg = <<>>
  /\ onProgress = FALSE /\ i = 0 /\ totalPages = 0 /\ splitOut = <<>>
  /\ mergedDoc = <<>> /\ result = <<>> /\ ticks = <<>> /\ reads = <<>>
  /\ created = 0 /\ advisory = "none"
  /\ thrown \in {<<e>> : e \in Caught}

SpecClassify == InitClassify /\ [][Classify]_vars

\* ------------------------------------- the two catch blocks on any value
\* the values that may reach the catch block of splitPdfPages / mergePdfFiles:
\* those of Caught, and values that are no Error but carry a type
CaughtInside ==
  Caught \cup [isError : {FALSE}, type : ErrorType, words : Messages]

\* the catch block of splitPdfPages runs on the value in thrown
SplitCatches ==
  /\ pc = "s_catch"
  /\ pc' = "done"
  /\ thrown' = <<splitCatch(thrown[1])>>
  /\ UNCHANGED <<opKind, caller, arg, onProgress, i, totalPages, splitOut, mergedDoc,
                 result, ticks, reads, created, advisory>>
  /\ UNCHANGED <<urlVars, thumbVars, zipVars, appVars, processingProgress>>

\* the catch block of mergePdfFiles runs on the value in thrown
MergeCatches ==
  /\ pc = "m_catch"
  /\ pc' = "done"
  /\ thrown' = <<mergeCatch(thrown[1])>>
  /\ UNCHANGED <<opKind, caller, arg, onProgress, i, totalPages, splitOut, mergedDoc,
                 result, ticks, reads, created, advisory>>
  /\ UNCHANGED <<urlVars, thumbVars, zipVars, appVars, processingProgress>>

InitCatch ==
  /\ HomeInit
  /\ \/ pc = "s_catch" /\ opKind = "split"
     \/ pc = "m_catch" /\ opKind = "merge"
  /\ caller = "lib" /\ arg = <<>> /\ onProgress = FALSE /\ i = 0 /\ totalPages = 0
  /\ splitOut = <<>> /\ mergedDoc = <<>> /\ result = <<>> /\ ticks = <<>>
  /\ reads = <<>> /\ created = 0 /\ advisory = "none"
  /\ thrown \in {<<e>> : e \in CaughtInside}

SpecCatch == InitCatch /\ [][SplitCatches \/ MergeCatches]_vars

\* ------------------------------------------------------------ the downloads
\* most object URLs made in one run
MaxUrls == 2

\* what the lines after URL.createObjectURL may do: run through to setTimeout,
\* or throw on the way (appendChild, click, removeChild)
TriggerOutcomes == {"clicked", "throws"}

\* URL.createObjectURL(blob) ... link.click() ...
\* setTimeout(() => URL.revokeObjectURL(url), 100); a throw in between leaves
\* the try block (or rejects the promise) before the timer is set
download(outcome) ==
  /\ urlsCreated < MaxUrls
  /\ urlsCreated' = urlsCreated + 1
  /\ objectUrls' = objectUrls \cup {urlsCreated + 1}
  /\ revokeTimers' = IF outcome = "clicked" THEN revokeTimers \cup {urlsCreated + 1}
                     ELSE revokeTimers

\* handleDownload(pdf), the download button of one page card
handleDownload(k, outcome) ==
  /\ state = "completed" /\ mode = "split"
  /\ k \in 1..Len(splitPdfs)
  /\ download(outcome)
  /\ UNCHANGED <<appVars, processingProgress, callVars, zipVars, thumbVars>>

\* the download button of the merged document
MergedDownload(outcome) ==
  /\ state = "completed" /\ mode = "merge" /\ mergedPdf # <<>>
  /\ download(outcome)
  /\ UNCHANGED <<appVars, processingProgress, callVars, zipVars, thumbVars>>

\* downloadPdfsAsZip from the generated archive on
ZipDownload(outcome) ==
  /\ state = "completed" /\ mode = "split" /\ splitPdfs # <<>>
  /\ download(outcome)
  /\ UNCHANGED <<appVars, processingProgress, callVars, zipVars, thumbVars>>

\* the 100 ms timer of one URL fires
RevokeTimer(url) ==
  /\ url \in revokeTimers
  /\ revokeTimers' = revokeTimers \ {url}
  /\ objectUrls' = objectUrls \ {url}
  /\ UNCHANGED <<urlsCreated, appVars, processingProgress, callVars, zipVars, thumbVars>>

RECURSIVE mergeAll(_)
mergeAll(files) ==
  IF files = <<>> THEN <<>>
  ELSE copyAll(Catalogue[Head(files)].doc) \o mergeAll(Tail(files))

\* the files of which the app can show a finished split or merge
Finishing ==
  {f \in Shown : isValid(f) /\ Catalogue[f].doc.ok /\ Catalogue[f].doc.bad = 0}

\* Home showing the outcome of a split of one file, or of a merge of a list
InitDownload ==
  /\ ZipInit /\ ThumbInit /\ UrlInit /\ CallInit("app")
  /\ state = "completed"
  /\ errorInfo = <<>> /\ draggedIndex = <<>> /\ candidate = <<>>
  /\ \/ /\ mode = "split"
        /\ \E f \in Finishing, failed \in SUBSET (1..MaxShown) :
             LET n == Len(Catalogue[f].doc.pages) IN
             /\ failed \subseteq 1..n
             /\ uploadedFile = <<f>>
             /\ splitPdfs = [k \in 1..n |->
                  [ pageNumber |-> splitArtifact(f, k - 1).pageNumber,
                    blob |-> splitArtifact(f, k - 1).blob,
                    fileName |-> splitArtifact(f, k - 1).fileName,
                    thumbnail |-> generateThumbnail(splitArtifact(f, k - 1).blob,
                                                    k \in failed) ]]
             /\ processingProgress =
                  IF n = 0 THEN <<>> ELSE <<[current |-> n, total |-> n]>>
        /\ uploadedFiles = <<>> /\ mergedPdf = <<>>
     \/ /\ mode = "merge"
        /\ \E files \in SeqsUpTo(Finishing, MaxFiles) :
             /\ Len(files) >= 2
             /\ sumSizes(files) <= MAX_TOTAL_SIZE
             /\ uploadedFiles = files
             /\ mergedPdf = <<mergeResult(files, mergeAll(files), Len(mergeAll(files)))>>
             /\ processingProgress = <<[current |-> Len(files), total |-> Len(files)]>>
        /\ uploadedFile = <<>> /\ splitPdfs = <<>>

NextDownload ==
  \/ \E k \in 1..MaxShown, outcome \in TriggerOutcomes : handleDownload(k, outcome)
  \/ \E outcome \in TriggerOutcomes : MergedDownload(outcome)
  \/ \E outcome \in TriggerOutcomes : ZipDownload(outcome)
  \/ \E url \in 1..MaxUrls : RevokeTimer(url)
  \/ Reset

SpecDownload == InitDownload /\ [][NextDownload]_vars

\* a timer that was set does fire
SpecDownloadLive == SpecDownload /\ WF_vars(\E url \in 1..MaxUrls : RevokeTimer(url))

\* ================================================================ claims
\* what the claims speak of, stated apart from the operations above
PagesOf(file) == Catalogue[file].doc.pages
CopiesCleanly(file) == Catalogue[file].doc.ok /\ Catalogue[file].doc.bad = 0

RECURSIVE Concatenation(_)
Concatenation(files) ==
  IF files = <<>> THEN <<>> ELSE PagesOf(Head(files)) \o Concatenation(Tail(files))

RECURSIVE PageSum(_)
PageSum(files) ==
  IF files = <<>> THEN 0 ELSE Len(PagesOf(Head(files))) + PageSum(Tail(files))

RECURSIVE SizeSum(_)
SizeSum(files) ==
  IF files = <<>> THEN 0 ELSE Catalogue[Head(files)].size + SizeSum(Tail(files))

SplitDone == pc = "done" /\ opKind = "split"
MergeDone == pc = "done" /\ opKind = "merge"
Returned == result # <<>>
Rejected == thrown # <<>>

\* C1: a split that returns gives exactly n artifacts for an n-page source,
\* numbered 1..n in order, artifact k holding source page k and nothing else;
\* a source within the size limit that loads and whose pages all copy does
\* return, also when n = 0 (an empty list, no error).
C1_SplitArtifacts ==
  SplitDone =>
    LET file == arg[1]
        n == Len(PagesOf(file))
    IN /\ Returned =>
            /\ Len(result[1]) = n
            /\ \A k \in 1..n :
                 /\ result[1][k].pageNumber = k
                 /\ result[1][k].blob = <<PagesOf(file)[k]>>
       /\ (Catalogue[file].size <= MAX_FILE_SIZE /\ CopiesCleanly(file))
            => (Returned /\ ~Rejected)

C1_Witness == SplitDone /\ Returned /\ Len(result[1]) = 3

\* C2: a merge of k >= 2 documents that returns gives one artifact whose pages
\* are document 1's pages, then document 2's, ..., each in its own order, and
\* whose totalPages is p1 + ... + pk; k >= 2 documents within the total size
\* limit that all load and copy do return.
C2_MergeConcatenation ==
  MergeDone =>
    /\ Returned =>
         /\ Len(arg) >= 2
         /\ result[1].blob = Concatenation(arg)
         /\ result[1].totalPages = PageSum(arg)
    /\ (Len(arg) >= 2 /\ SizeSum(arg) <= MAX_TOTAL_SIZE
          /\ \A k \in 1..Len(arg) : CopiesCleanly(arg[k]))
         => (Returned /\ ~Rejected)

C2_Witness ==
  MergeDone /\ Returned /\ Len(arg) = 3 /\ arg[1] # arg[2] /\ result[1].totalPages = 5

\* the calls (1, total), (2, total), ..., (m, total)
CountingTicks(m, total) == [k \in 1..m |-> <<k, total>>]

\* C3: in a split with a progress callback the calls made so far are always
\* (1,n), (2,n), ... without gap or repeat; the call for page k is made after
\* artifact k was pushed and before page k+1 is started; a split that returns
\* has made exactly n calls.
C3_SplitProgress ==
  (opKind = "split" /\ onProgress) =>
    /\ pc \in {"s_loop", "s_progress", "done"} =>
         ticks = CountingTicks(Len(ticks), Len(PagesOf(arg[1])))
    /\ pc = "s_loop" => (Len(ticks) = i /\ Len(splitOut) = i)
    /\ pc = "s_progress" => (Len(ticks) = i /\ Len(splitOut) = i + 1)
    /\ (pc = "done" /\ Returned) => Len(ticks) = Len(PagesOf(arg[1]))

C3_Witness == SplitDone /\ onProgress /\ Returned /\ Len(ticks) = 3

\* C4: in a merge of k documents with a progress callback the calls made so
\* far are always (1,k), (2,k), ...; call j is made once documents 1..j are
\* appended in full; a merge that returns has made exactly k calls, whatever
\* the page counts.
C4_MergeProgress ==
  (opKind = "merge" /\ onProgress) =>
    /\ ticks = CountingTicks(Len(ticks), Len(arg))
    /\ pc = "m_loop" => (Len(ticks) = i /\ mergedDoc = Concatenation(SubSeq(arg, 1, i)))
    /\ pc = "m_progress" =>
         (Len(ticks) = i /\ mergedDoc = Concatenation(SubSeq(arg, 1, i + 1)))
    /\ (pc = "done" /\ Returned) => Len(ticks) = Len(arg)

C4_Witness ==
  MergeDone /\ onProgress /\ Returned /\ Len(ticks) = 3 /\ result[1].totalPages = 5

Last(s) == s[Len(s)]

TicksIncrease == \A k \in 1..(Len(ticks) - 1) : ticks[k + 1][1] > ticks[k][1]
TicksSameTotal == \A k \in 1..Len(ticks) : ticks[k][2] = ticks[1][2]

C7_SplitSizeLimit ==
  (opKind = "split" /\ pc # "s_start") =>
    IF Catalogue[arg[1]].size > 100 * 1024 * 1024
    THEN /\ pc = "done" /\ ~Returned
         /\ Rejected /\ thrown[1].type = FILE_TOO_LARGE
         /\ reads = <<>> /\ ticks = <<>> /\ splitOut = <<>> /\ created = 0
    ELSE /\ reads = <<arg[1]>>
         /\ Rejected => thrown[1].type # FILE_TOO_LARGE

C7_Witness ==
  SplitDone /\ Catalogue[arg[1]].size = 100 * 1024 * 1024 + 1 /\ Rejected

\* C8: a merge of k >= 2 files whose sizes sum to more than 200 MB is rejected
\* with FILE_TOO_LARGE before any file is read and any progress call made; a
\* sum of exactly 200 MB passes; the 200 MB limit plays no part in a split,
\* which is rejected for size exactly when its one file is above 100 MB, and
\* the 100 MB limit plays no part in a merge.
C8_MergeSizeLimit ==
  /\ (opKind = "merge" /\ Len(arg) >= 2 /\ pc # "m_start") =>
       IF SizeSum(arg) > 200 * 1024 * 1024
       THEN /\ pc = "done" /\ ~Returned
            /\ Rejected /\ thrown[1].type = FILE_TOO_LARGE
            /\ reads = <<>> /\ ticks = <<>> /\ created = 0
       ELSE /\ created = 1
            /\ Rejected => thrown[1].type # FILE_TOO_LARGE
  /\ (SplitDone /\ Rejected) =>
       (thrown[1].type = FILE_TOO_LARGE <=> Catalogue[arg[1]].size > 100 * 1024 * 1024)

C8_Witness ==
  MergeDone /\ Len(arg) >= 2 /\ SizeSum(arg) > 200 * 1024 * 1024 /\ Rejected
    /\ \A k \in 1..Len(arg) : Catalogue[arg[k]].size <= 100 * 1024 * 1024

\* the three checks of a candidate file, as the claim words them
NamedDotPdf(file) == endsWith(toLowerCase(Catalogue[file].name), <<".","p","d","f">>)
TypeRefused(file) == Catalogue[file].type # "" /\ Catalogue[file].type # "application/pdf"
Oversize(file) == Catalogue[file].size > 100 * 1024 * 1024
PassesValidation(file) == NamedDotPdf(file) /\ ~TypeRefused(file) /\ ~Oversize(file)

C10_MergeListValidated ==
  (opKind = "merge" /\ caller = "app") =>
    \A k \in 1..Len(arg) : PassesValidation(arg[k])

\* C11: when splitPdfPages or mergePdfFiles rejects with a value that carries
\* a kind, the error record Home then presents has that same kind.
C11_KindPropagated ==
  [][ (pc = "done" /\ caller = "app" /\ thrown # <<>> /\ thrown[1].type # ""
         /\ pc' = "idle")
        => (state' = "error" /\ errorInfo' # <<>>
              /\ errorInfo'[1].type = thrown[1].type) ]_vars

\* the rules of the claim: a kind and the words that select it, in order
Rules ==
  << [kind |-> "INVALID_FILE_TYPE", words |-> {"invalid", "format"}],
     [kind |-> "FILE_TOO_LARGE",    words |-> {"large", "size"}],
     [kind |-> "CORRUPTED_PDF",     words |-> {"corrupt", "damaged"}],
     [kind |-> "MEMORY_ERROR",      words |-> {"memory"}],
     [kind |-> "PROCESSING_ERROR",  words |-> {"processing", "parse"}] >>

\* a message with every capital letter made small
LowerCased(words) ==
  {CASE w = "Invalid" -> "invalid" [] w = "Parse" -> "parse"
     [] w = "Memory" -> "memory" [] w = "Size" -> "size" [] OTHER -> w : w \in words}

Matching(e) == {k \in 1..Len(Rules) : Rules[k].words \cap LowerCased(e.words) # {}}

FirstRule(e) ==
  IF e.isError /\ Matching(e) # {}
  THEN Rules[CHOOSE k \in Matching(e) : \A j \in Matching(e) : k <= j].kind
  ELSE "UNKNOWN_ERROR"

\* C12: for a caught value without a kind, the record getErrorInfo returns is
\* the static table's entry (kind, message, solution) of the first rule, in the
\* order invalid/format, large/size, corrupt/damaged, memory, processing/parse,
\* that the lower-cased message matches; UNKNOWN_ERROR's entry when none
\* matches or the value is no Error.
C12_KeywordRules ==
  (state = "error" /\ thrown # <<>> /\ thrown[1].type = "") =>
    /\ errorInfo # <<>>
    /\ errorInfo[1] = ERROR_MESSAGES(FirstRule(thrown[1]))

C12_Witness ==
  /\ state = "error" /\ thrown # <<>> /\ thrown[1].type = "" /\ thrown[1].isError
  /\ thrown[1].words = {"parse", "Invalid"}
  /\ errorInfo[1].type = INVALID_FILE_TYPE

Unparsable(file) == ~Catalogue[file].doc.ok

\* C13: a split of a file that passes validation but whose bytes do not parse
\* is rejected with kind CORRUPTED_PDF, the app then shows an error of that
\* kind, and it never shows 'completed' for such a file.
C13_UnparsableIsCorrupted ==
  /\ (SplitDone /\ PassesValidation(arg[1]) /\ Unparsable(arg[1])) =>
       (Rejected /\ ~Returned /\ thrown[1].type = CORRUPTED_PDF)
  /\ (mode = "split" /\ state = "error" /\ uploadedFile # <<>>
        /\ Unparsable(uploadedFile[1])) =>
       (errorInfo # <<>> /\ errorInfo[1].type = CORRUPTED_PDF)
  /\ (mode = "split" /\ state = "completed") =>
       (uploadedFile # <<>> /\ ~Unparsable(uploadedFile[1]))

\* C14: a split or merge that is rejected hands nothing to its caller, even
\* when pages or documents were already processed; the app holds split
\* artifacts only as the full list of the file it split (one per page) and a
\* merged artifact only as the full concatenation of the list it merged, and
\* holds neither in the 'error' state.
C14_NoPartialResults ==
  /\ (pc = "done" /\ Rejected) => result = <<>>
  /\ state = "error" => (splitPdfs = <<>> /\ mergedPdf = <<>>)
  /\ splitPdfs # <<>> =>
       /\ state = "completed" /\ uploadedFile # <<>>
       /\ Len(splitPdfs) = Len(PagesOf(uploadedFile[1]))
       /\ \A k \in 1..Len(splitPdfs) : splitPdfs[k].blob = <<PagesOf(uploadedFile[1])[k]>>
  /\ mergedPdf # <<>> =>
       /\ state = "completed"
       /\ mergedPdf[1].blob = Concatenation(uploadedFiles)
       /\ mergedPdf[1].totalPages = PageSum(uploadedFiles)

\* a split stopped at its second page with the first artifact already made,
\* seen in the app after the catch block ran
C14_Witness ==
  /\ state = "error" /\ mode = "split" /\ uploadedFile # <<>>
  /\ Catalogue[uploadedFile[1]].doc.ok /\ Catalogue[uploadedFile[1]].doc.bad = 2
  /\ splitPdfs = <<>> /\ pc = "idle"

\* C15: once a split has returned its n artifacts to the app, the next step of
\* the app is 'completed' with no error record, whichever thumbnails could not
\* be rendered: the n artifacts keep their page numbers, file names and
\* buffers, and each thumbnail is the rendering of its page or empty.
C15_ThumbnailFailures ==
  [][ (pc = "done" /\ opKind = "split" /\ caller = "app" /\ Returned /\ pc' # pc)
        => /\ state' = "completed" /\ errorInfo' = <<>>
           /\ Len(splitPdfs') = Len(result[1])
           /\ \A k \in 1..Len(result[1]) :
                /\ splitPdfs'[k].pageNumber = result[1][k].pageNumber
                /\ splitPdfs'[k].fileName = result[1][k].fileName
                /\ splitPdfs'[k].blob = result[1][k].blob
                /\ splitPdfs'[k].thumbnail \in {<<>>, <<PagesOf(arg[1])[k]>>} ]_vars

\* three artifacts shown, the first without a thumbnail, the second with one
C15_Witness ==
  /\ state = "completed" /\ mode = "split" /\ Len(splitPdfs) = 3
  /\ splitPdfs[1].thumbnail = <<>> /\ splitPdfs[2].thumbnail # <<>>
  /\ \A k \in 1..3 : splitPdfs[k].pageNumber = k

\* an operation started by the app has not yet been taken up by its handler
InFlight == pc # "idle" /\ caller = "app"
Starts == pc' \in {"s_start", "m_start"} /\ pc' # pc

OperationFailed ==
  state = "error" /\ errorInfo # <<>> /\ errorInfo[1] = ERROR_MESSAGES(errorInfo[1].type)

\* C17: retry after a failed operation runs that operation again on the same
\* input: in split mode splitPdfPages on the stored file, in merge mode
\* mergePdfFiles on the stored list in its order.
C17_RetryReruns ==
  [][ (OperationFailed /\ handleRetry) =>
        /\ state' = "processing"
        /\ uploadedFile' = uploadedFile /\ uploadedFiles' = uploadedFiles
        /\ IF mode = "split"
           THEN pc' = "s_start" /\ opKind' = "split" /\ arg' = uploadedFile
           ELSE pc' = "m_start" /\ opKind' = "merge" /\ arg' = uploadedFiles ]_vars

\* the pipeline state of a freshly mounted Home, the mode apart
StartUp(st, file, files, pdfs, merged, err, progress) ==
  /\ st = "upload" /\ file = <<>> /\ files = <<>> /\ pdfs = <<>>
  /\ merged = <<>> /\ err = <<>> /\ progress = <<>>

\* C18: a reset, pressed where a reset button is shown (the merge list, an
\* error, a completed split or merge), leads to 'upload' with no stored file,
\* an empty merge list, no split artifacts, no merged artifact, no error record
\* and no progress value, as at start-up, and leaves the mode as it was.
C18_ResetClears ==
  [][ Reset =>
        /\ state \in {"file-selected", "completed", "error"}
        /\ StartUp(state', uploadedFile', uploadedFiles', splitPdfs', mergedPdf',
                   errorInfo', processingProgress')
        /\ mode' = mode ]_vars

\* a completed merge: the reset button is shown and the list, the artifact and
\* the progress value are all there to be cleared
C18_Witness ==
  /\ ResetShown /\ state = "completed" /\ mode = "merge"
  /\ mergedPdf # <<>> /\ Len(uploadedFiles) >= 2 /\ processingProgress # <<>>

\* C19: the archive downloadPdfsAsZip builds from the ticked artifacts of one
\* split result has exactly as many entries as pages are ticked, one per ticked
\* artifact, under that artifact's file name and with its bytes; the file names
\* of a split result are pairwise distinct, whatever the page count.
C19_ZipEntries ==
  /\ (zipPc = "generated") =>
       /\ Len(zip) = Cardinality(selectedPages)
       /\ \A k \in selectedPages :
            \E j \in 1..Len(zip) :
              zip[j] = [name |-> result[1][k].fileName, data |-> result[1][k].blob]
       /\ \A j \in 1..Len(zip) :
            \E k \in selectedPages : zip[j].name = result[1][k].fileName
  /\ (SplitDone /\ Returned /\ zipPc = "none") =>
       \A a, b \in 1..Len(result[1]) :
         a # b => result[1][a].fileName # result[1][b].fileName

\* twelve pages ticked, pages 1 and 11 among them, and twelve entries
C19_Witness ==
  /\ zipPc = "generated" /\ selectedPages = 1..12 /\ Len(zip) = 12
  /\ zip[1].name # zip[11].name

\* the decimal digits of a number below 1000
Decimal(n) ==
  IF n < 10 THEN <<Digits[n + 1]>>
  ELSE IF n < 100 THEN <<Digits[(n \div 10) + 1], Digits[(n % 10) + 1]>>
  ELSE <<Digits[(n \div 100) + 1], Digits[((n \div 10) % 10) + 1], Digits[(n % 10) + 1]>>

\* name = base.pdf, the extension in any case
HasPdfExtension(name) ==
  /\ Len(name) >= 4
  /\ name[Len(name) - 3] = "."
  /\ name[Len(name) - 2] \in {"p", "P"}
  /\ name[Len(name) - 1] \in {"d", "D"}
  /\ name[Len(name)] \in {"f", "F"}

Base(name) == SubSeq(name, 1, Len(name) - 4)

\* C20: the artifact of page i of a source named base.pdf (extension in any
\* case) is named base_page_ then i in decimal, with one leading zero when
\* i < 10 and as it is when i >= 10 (three digits from 100 on), then .pdf.
C20_FileNames ==
  (opKind = "split" /\ HasPdfExtension(Catalogue[arg[1]].name)) =>
    \A k \in 1..Len(splitOut) :
      LET number == splitOut[k].pageNumber
          digits == IF number < 10 THEN <<"0">> \o Decimal(number) ELSE Decimal(number)
      IN /\ number = k
         /\ splitOut[k].fileName =
              Base(Catalogue[arg[1]].name) \o <<"_","p","a","g","e","_">> \o digits
                \o <<".","p","d","f">>
         /\ Len(digits) = IF number < 100 THEN 2 ELSE 3

\* a source named w.Pdf split into a hundred pages or more
C20_Witness ==
  /\ SplitDone /\ Returned /\ Len(result[1]) >= 100
  /\ result[1][9].fileName = <<"w","_","p","a","g","e","_","0","9",".","p","d","f">>
  /\ result[1][10].fileName = <<"w","_","p","a","g","e","_","1","0",".","p","d","f">>
  /\ result[1][100].fileName = <<"w","_","p","a","g","e","_","1","0","0",".","p","d","f">>

\* the pages whose rendering has started and not yet settled
Rendering ==
  {k \in 1..Len(pdfsWithThumbnails) : ~pdfsWithThumbnails[k].settled}

\* the steps of the running call that have started, and those that have finished
StepsStarted == IF opKind = "split" THEN created ELSE Len(reads)
StepsFinished ==
  IF opKind = "split" THEN Len(splitOut)
  ELSE IF pc = "m_progress" THEN i + 1 ELSE i

\* C21: during a split or merge step i+1 starts only when step i has finished
\* and its progress has been reported, and at no time are two pages or two
\* documents in work at once, from the start of the operation until the app
\* shows its outcome.
C21_StrictlySequential ==
  /\ opKind \in {"split", "merge"} =>
       /\ StepsStarted - StepsFinished \in {0, 1}
       /\ (pc \in {"s_loop", "m_loop"} /\ onProgress) => Len(ticks) = StepsFinished
       /\ pc \in {"s_progress", "m_progress"} => StepsStarted = StepsFinished
  /\ Cardinality(Rendering) <= 1

\* C22: every object URL made for a download (one page, the merged document,
\* the archive) is revoked in the end, on every path through the download code,
\* the one where triggering the download throws included.
C22_UrlsRevoked ==
  \A url \in 1..MaxUrls : (url \in objectUrls) ~> (url \notin objectUrls)

\* the kinds with which a failure of the PDF library may leave a call
LibraryFailureKinds == {"CORRUPTED_PDF", "PROCESSING_ERROR", "UNKNOWN_ERROR"}

NoTicks(cb, ts) == IF cb THEN ts ELSE <<>>

BaseName(name) == IF HasPdfExtension(name) THEN Base(name) ELSE name

\* what a split of a file does where performance.memory does not exist
SplitWithoutMemory(file, cb) ==
  LET n == Len(PagesOf(file)) IN
  IF Catalogue[file].size > 100 * 1024 * 1024
  THEN [returns |-> FALSE, artifacts |-> <<>>, kinds |-> {"FILE_TOO_LARGE"}, ticks |-> <<>>]
  ELSE IF Unparsable(file)
  THEN [returns |-> FALSE, artifacts |-> <<>>, kinds |-> LibraryFailureKinds, ticks |-> <<>>]
  ELSE IF Catalogue[file].doc.bad # 0
  THEN [returns |-> FALSE, artifacts |-> <<>>, kinds |-> LibraryFailureKinds,
        ticks |-> NoTicks(cb, CountingTicks(Catalogue[file].doc.bad - 1, n))]
  ELSE [returns |-> TRUE,
        artifacts |-> [k \in 1..n |->
           [pageNumber |-> k, blob |-> <<PagesOf(file)[k]>>,
            fileName |-> BaseName(Catalogue[file].name) \o <<"_","p","a","g","e","_">>
                           \o (IF k < 10 THEN <<"0">> ELSE <<>>) \o Decimal(k)
                           \o <<".","p","d","f">>]],
        kinds |-> {}, ticks |-> NoTicks(cb, CountingTicks(n, n))]

\* the documents of a list before the first that does not load or copy
CleanPrefix(files) ==
  IF \E k \in 1..Len(files) : ~CopiesCleanly(files[k])
  THEN (CHOOSE k \in 1..Len(files) :
          /\ ~CopiesCleanly(files[k])
          /\ \A j \in 1..(k - 1) : CopiesCleanly(files[j])) - 1
  ELSE Len(files)

\* what a merge of a list does where performance.memory does not exist
MergeWithoutMemory(files, cb) ==
  IF Len(files) < 2
  THEN [returns |-> FALSE, artifacts |-> <<>>, kinds |-> {"INVALID_FILE_TYPE"}, ticks |-> <<>>]
  ELSE IF SizeSum(files) > 200 * 1024 * 1024
  THEN [returns |-> FALSE, artifacts |-> <<>>, kinds |-> {"FILE_TOO_LARGE"}, ticks |-> <<>>]
  ELSE IF CleanPrefix(files) < Len(files)
  THEN [returns |-> FALSE, artifacts |-> <<>>, kinds |-> LibraryFailureKinds,
        ticks |-> NoTicks(cb, CountingTicks(CleanPrefix(files), Len(files)))]
  ELSE [returns |-> TRUE,
        artifacts |-> << [blob |-> Concatenation(files),
                          fileName |-> BaseName(Catalogue[files[1]].name)
                            \o <<"_","m","e","r","g","e","d",".","p","d","f">>,
                          totalPages |-> PageSum(files)] >>,
        kinds |-> {}, ticks |-> NoTicks(cb, CountingTicks(Len(files), Len(files)))]

KindLeaving(e) ==
  IF e.isError /\ e.type # "" THEN e.type
  ELSE IF e.isError /\ LowerCased(e.words) \cap {"parse", "invalid"} # {}
  THEN "CORRUPTED_PDF"
  ELSE IF e.isError THEN "PROCESSING_ERROR"
  ELSE "UNKNOWN_ERROR"

\* C24: a failure leaves splitPdfPages or mergePdfFiles as an Error of exactly
\* one kind: a typed Error leaves as it came; an untyped Error whose lower-cased
\* message holds 'parse' or 'invalid' leaves as CORRUPTED_PDF, any other untyped
\* Error as PROCESSING_ERROR, and a value that is no Error as UNKNOWN_ERROR.
C24_OneKindLeaves ==
  /\ [](pc = "done" => (thrown[1].isError /\ thrown[1].type \in ErrorType))
  /\ [][ (pc = "s_catch" \/ pc = "m_catch") =>
           /\ thrown'[1].type = KindLeaving(thrown[1])
           /\ (thrown[1].isError /\ thrown[1].type # "") => (thrown'[1] = thrown[1]) ]_vars

\* an untyped Error whose message spells Parse with a capital has left a merge
C24_Witness ==
  /\ pc = "done" /\ opKind = "merge" /\ thrown[1].type = CORRUPTED_PDF
  /\ thrown[1].words = {}

\* a list with the entry at one position taken out
Without(s, k) == [j \in 1..(Len(s) - 1) |-> IF j < k THEN s[j] ELSE s[j + 1]]

MergedSuffix == <<"_","m","e","r","g","e","d",".","p","d","f">>

\* C25: a row dragged from a valid position and dropped on another row leaves
\* the same files in the list, the dragged one at the position of the drop and
\* the others in their old relative order; and a merge the app starts takes the
\* list as it is at that moment: its pages are those of the listed files in
\* list order and its name is the base name of the first listed file followed
\* by _merged.pdf.
C25_ListOrder ==
  /\ [][ \A to \in 1..MaxFiles :
           (handleFileDrop(to) /\ draggedIndex[1] \in 1..Len(uploadedFiles)
              /\ draggedIndex[1] # to)
           => ( /\ Len(uploadedFiles') = Len(uploadedFiles)
                /\ uploadedFiles'[to] = uploadedFiles[draggedIndex[1]]
                /\ Without(uploadedFiles', to) = Without(uploadedFiles, draggedIndex[1]) )
       ]_vars
  /\ [][ handleMerge => (pc' = "m_start" /\ arg' = uploadedFiles) ]_vars
  /\ []( (MergeDone /\ caller = "app" /\ Returned) =>
           /\ result[1].blob = Concatenation(uploadedFiles)
           /\ result[1].fileName = BaseName(Catalogue[uploadedFiles[1]].name) \o MergedSuffix )

\* a merge of three listed files, the longest document not the first
C25_Witness ==
  /\ MergeDone /\ caller = "app" /\ Returned
  /\ Len(uploadedFiles) = 3
  /\ uploadedFiles[1] = "a" /\ uploadedFiles[3] = "b"
  /\ result[1].fileName = <<"a">> \o MergedSuffix

\* C26: whenever the app shows 'file-selected' it is in merge mode and the merge
\* list holds at least 2 files; removeFile takes out exactly the file at the
\* given position, keeps the order of the rest, and moves the app to 'upload'
\* whenever fewer than 2 files remain.
C26_FileSelected ==
  /\ [](state = "file-selected" => (mode = "merge" /\ Len(uploadedFiles) >= 2))
  /\ [][ \A index \in 1..MaxFiles :
           removeFile(index) =>
             ( /\ uploadedFiles' = Without(uploadedFiles, index)
               /\ state' = IF Len(uploadedFiles') < 2 THEN "upload" ELSE "file-selected"
               /\ mode' = mode )
       ]_vars

\* the list view left because the second last file was taken out
C26_Witness ==
  state = "upload" /\ mode = "merge" /\ Len(uploadedFiles) = 1

\* C27: the app holds an error record exactly when it shows 'error': it enters
\* 'error' with a record set, and leaving 'error' (retry, reset) as well as
\* starting a split or merge leaves no record.
C27_ErrorRecord ==
  /\ []((errorInfo # <<>>) <=> (state = "error"))
  /\ [][ (state # "error" /\ state' = "error") => errorInfo' # <<>> ]_vars
  /\ [][ (state = "error" /\ state' # "error") => errorInfo' = <<>> ]_vars
  /\ [][ Starts => errorInfo' = <<>> ]_vars

\* a failed merge shown with the record the catch block made
C27_Witness ==
  /\ state = "error" /\ mode = "merge" /\ pc = "idle" /\ Len(uploadedFiles) >= 2
  /\ errorInfo # <<>> /\ errorInfo[1] = ERROR_MESSAGES(errorInfo[1].type)

\* C28: what the app holds in 'completed' fits the mode: in split mode no merged
\* artifact and the artifacts of the split of the stored file, one per page in
\* page order; in merge mode a merged artifact and no split artifacts; and the
\* mode does not change while the app shows 'processing', 'completed' or 'error'.
C28_ResultFitsMode ==
  /\ []( (state = "completed" /\ mode = "split") =>
           /\ mergedPdf = <<>>
           /\ uploadedFile # <<>>
           /\ Len(splitPdfs) = Len(PagesOf(uploadedFile[1]))
           /\ \A k \in 1..Len(splitPdfs) :
                /\ splitPdfs[k].pageNumber = k
                /\ splitPdfs[k].blob = <<PagesOf(uploadedFile[1])[k]>> )
  /\ []( (state = "completed" /\ mode = "merge") =>
           (mergedPdf # <<>> /\ splitPdfs = <<>>) )
  /\ [][ (state = "processing" \/ state = "completed" \/ state = "error")
           => mode' = mode ]_vars

\* a completed split of the three-page file
C28_Witness ==
  /\ state = "completed" /\ mode = "split" /\ uploadedFile = <<"b">>
  /\ Len(splitPdfs) = 3 /\ mergedPdf = <<>>

\* the renders that have settled
Settling ==
  {k \in 1..Len(pdfsWithThumbnails) : pdfsWithThumbnails[k].settled}

\* C29: the thumbnails of the n artifacts of a split are rendered concurrently:
\* all n renders are started together and settle in any order; whatever the
\* order, artifact k is stored with the thumbnail made from its own buffer (or
\* none, if its render failed), the artifacts are stored in page order 1..n, and
\* the app shows 'completed' only once all n renders have settled.
C29_ThumbnailPairing ==
  /\ [][ (thumbPc = "none" /\ thumbPc' = "rendering") =>
           ( /\ Len(pdfsWithThumbnails') = Len(result[1])
             /\ \A k \in 1..Len(result[1]) : ~pdfsWithThumbnails'[k].settled ) ]_vars
  /\ [][ (thumbPc = "rendering" /\ thumbPc' = "rendering") =>
           \A k \in 1..Len(pdfsWithThumbnails) :
             /\ pdfsWithThumbnails[k].settled => pdfsWithThumbnails'[k] = pdfsWithThumbnails[k]
             /\ pdfsWithThumbnails'[k].thumbnail \in {<<>>, result[1][k].blob} ]_vars
  /\ [][ (mode = "split" /\ state = "processing" /\ state' = "completed") =>
           ( /\ thumbPc = "rendering"
             /\ Settling = 1..Len(result[1])
             /\ Len(splitPdfs') = Len(result[1])
             /\ \A k \in 1..Len(result[1]) :
                  /\ splitPdfs'[k].pageNumber = k
                  /\ splitPdfs'[k].blob = result[1][k].blob
                  /\ splitPdfs'[k].thumbnail = pdfsWithThumbnails[k].thumbnail ) ]_vars
  /\ []( (mode = "split" /\ state = "completed") =>
           \A k \in 1..Len(splitPdfs) :
             /\ splitPdfs[k].pageNumber = k
             /\ splitPdfs[k].thumbnail \in {<<>>, <<PagesOf(uploadedFile[1])[k]>>} )

\* the render of page 3 has settled, the render of page 2 has failed, and the
\* render of page 1 is still running
C29_Witness ==
  /\ thumbPc = "rendering" /\ Len(pdfsWithThumbnails) = 3
  /\ ~pdfsWithThumbnails[1].settled
  /\ pdfsWithThumbnails[2].settled /\ pdfsWithThumbnails[2].thumbnail = <<>>
  /\ pdfsWithThumbnails[3].settled /\ pdfsWithThumbnails[3].thumbnail = <<"b3">>

\* the files of a selection that pass validation, in the order of the selection
ValidOnes(files) == SelectSeq(files, PassesValidation)

====
